---- MODULE Spec2Model ----
(***************************************************************************)
(* Model of multidb/__init__.py: SlavesProcessor (replica health tracking  *)
(* and round-robin selection) and the routers built on it.                 *)
(*                                                                         *)
(* Time is counted in seconds since the module was imported.  A caller is  *)
(* a thread running db_for_read; its position is the source line it is     *)
(* about to execute.  Thread switches are modelled at line boundaries.     *)
(***************************************************************************)
EXTENDS Integers, Sequences, FiniteSets, TLC

\* ------------------------------------------------------------------ bounds
MaxCallers == 2
MaxCalls == 4
MaxPeriods == 2

\* --------------------------------------------------------------- constants
DEFAULT_DB_ALIAS == "default"

\* datetime.now() + timedelta(days=365*1000) at import time.  The instant is
\* beyond the integers TLC computes with; the largest one stands for it.
\* Every clock value and every reconnect time of the model lies below it.
UNIMAGINEABLE_FUTURE == 2147483647

\* SLAVE_DATABASES = ['shadow-1', 'shadow-2'], the configuration of the docstring
SLAVE_DATABASES == <<"shadow-1", "shadow-2">>

VARIABLES
    settings,                    \* django.conf.settings: SLAVE_DATABASES, RECONNECT_TIME (optional)
    keyOrder,                    \* iteration order of the slaves_statistics dict
    slaves_statistics,           \* SlavesProcessor.slaves_statistics
    next_refresh_available_time, \* SlavesProcessor.next_refresh_available_time
    slaves,                      \* SlavesProcessor.slaves (itertools.cycle / repeat)
    clock,                       \* datetime.datetime.now()
    pc,                          \* per caller: the line it is at
    pinned,                      \* per caller: this_thread_is_pinned() of the running call
    now,                         \* per caller: datetime.now() read on line 69
    next,                        \* per caller: local `next` of get_slave / `alias` of disable_connection
    next_refresh,                \* per caller: local of refresh_available
    current_time,                \* per caller: local of refresh_available
    idx,                         \* per caller: position of the for loop of line 86
    dbs,                         \* per caller: local of reset_slave_databases
    retpc,                       \* per caller: where reset_slave_databases returns to
    ret,                         \* per caller: returned alias
    raised,                      \* per caller: exception leaving db_for_read ("" when none)
    op,                          \* per caller: router method running: "read", "write", "syncdb"
    arg,                         \* per caller: the db argument of allow_syncdb
    allow,                       \* per caller: the value allow_syncdb returned
    probe_ok,                    \* history: outcome of the probe of the running call
    avail_at_draw,               \* history: replicas marked available when line 71 ran
    disabled_at,                 \* history: replica -> clock read by its last disable_connection
    disable_done,                \* history: replicas whose last disable_connection has returned
    healthy,                     \* history: no probe has failed and nothing was raised so far
    returned                     \* history: alias -> number of get_slave returns while healthy

vars == <<settings, keyOrder, slaves_statistics, next_refresh_available_time, slaves,
          clock, pc, pinned, now, next, next_refresh, current_time, idx, dbs, retpc,
          ret, raised, op, arg, allow, probe_ok, avail_at_draw, disabled_at,
          disable_done, healthy, returned>>

shared == <<slaves_statistics, next_refresh_available_time, slaves>>
config == <<settings, keyOrder>>
locals == <<pinned, now, next, next_refresh, current_time, idx, dbs, retpc, ret, raised>>
router == <<op, arg, allow>>
history == <<probe_ok, avail_at_draw, disabled_at, disable_done, healthy, returned>>

\* ----------------------------------------------------------------- helpers
Range(s) == {s[k] : k \in DOMAIN s}

Min(a, b) == IF a < b THEN a ELSE b

Permutations_(S) ==
    {s \in [1..Cardinality(S) -> S] : \A a, b \in DOMAIN s : a # b => s[a] # s[b]}

AllCallers == 1..MaxCallers

Replicas == Range(settings.SLAVE_DATABASES)

\* getattr(settings, 'RECONNECT_TIME', 60)
SettingReconnectTime ==
    IF "RECONNECT_TIME" \in DOMAIN settings THEN settings.RECONNECT_TIME ELSE 60

\* Mutant: the setting taken as seconds.
RECONNECT_TIME_Unscaled == SettingReconnectTime

\* timedelta(seconds=60 * getattr(settings, 'RECONNECT_TIME', 60)), in seconds
RECONNECT_TIME == 60 * SettingReconnectTime

\* Mutant: the cycle is rebuilt from every key, available or not.
AvailableKeys_NoFilter == keyOrder

\* filter(lambda x: cls.slaves_statistics[x]['available'], cls.slaves_statistics.keys())
AvailableKeys == SelectSeq(keyOrder, LAMBDA x : slaves_statistics[x].available)

\* itertools.cycle(dbs) / itertools.repeat(DEFAULT_DB_ALIAS)
Cycle(items) == [kind |-> "cycle", items |-> items, pos |-> 1]
Repeat(x) == [kind |-> "repeat", items |-> <<x>>, pos |-> 1]

\* cls.slaves.next(): the element handed out, and the iterator afterwards
IterValue(it) == it.items[it.pos]
\* Mutant: the cursor does not move.
IterAdvance_Stuck(it) == it

IterAdvance(it) ==
    IF it.kind = "cycle" THEN [it EXCEPT !.pos = (it.pos % Len(it.items)) + 1] ELSE it

\* reset_slave_databases, lines 58-63: the iterator installed for the list dbs
Rebuilt(d) ==
    IF settings.SLAVE_DATABASES # <<>> /\ d # <<>> THEN Cycle(d) ELSE Repeat(DEFAULT_DB_ALIAS)

SumReturned == LET RECURSIVE Sum(_)
                   Sum(S) == IF S = {} THEN 0
                             ELSE LET x == CHOOSE y \in S : TRUE
                                  IN returned[x] + Sum(S \ {x})
               IN Sum(DOMAIN returned)

\* -------------------------------------------------------------------- Init
\* The settings the module is imported with: none, one or both of the replicas,
\* RECONNECT_TIME absent or 1.
Configurations ==
    LET lists == {SubSeq(SLAVE_DATABASES, 1, n) : n \in 0..Len(SLAVE_DATABASES)}
    IN {[SLAVE_DATABASES |-> l] : l \in lists}
       \cup {[SLAVE_DATABASES |-> l, RECONNECT_TIME |-> 1] : l \in lists}

Init ==
    /\ settings \in Configurations
    /\ keyOrder \in Permutations_(Replicas)
    /\ slaves_statistics = [db \in Replicas |-> [available |-> TRUE]]
    /\ next_refresh_available_time = UNIMAGINEABLE_FUTURE
    \* line 102: SlavesProcessor.reset_slave_databases() at import
    /\ slaves = Rebuilt(keyOrder)
    /\ clock = 0
    /\ pc = [t \in AllCallers |-> "idle"]
    /\ pinned = [t \in AllCallers |-> FALSE]
    /\ now = [t \in AllCallers |-> 0]
    /\ next = [t \in AllCallers |-> ""]
    /\ next_refresh = [t \in AllCallers |-> 0]
    /\ current_time = [t \in AllCallers |-> 0]
    /\ idx = [t \in AllCallers |-> 0]
    /\ dbs = [t \in AllCallers |-> <<>>]
    /\ retpc = [t \in AllCallers |-> ""]
    /\ ret = [t \in AllCallers |-> ""]
    /\ raised = [t \in AllCallers |-> ""]
    /\ op = [t \in AllCallers |-> ""]
    /\ arg = [t \in AllCallers |-> ""]
    /\ allow = [t \in AllCallers |-> FALSE]
    /\ probe_ok = [t \in AllCallers |-> "none"]
    /\ avail_at_draw = [t \in AllCallers |-> {}]
    /\ disabled_at = [a \in {} |-> 0]
    /\ disable_done = {}
    /\ healthy = TRUE
    /\ returned = [a \in Replicas \cup {DEFAULT_DB_ALIAS} |-> 0]

\* ----------------------------------------------------------------- actions
Set(f, t, v) == [f EXCEPT ![t] = v]

\* The call leaves db_for_read with an exception.
Raise(t, e) ==
    /\ raised' = Set(raised, t, e)
    /\ pc' = Set(pc, t, "done")
    /\ healthy' = FALSE
    /\ returned' = [a \in DOMAIN returned |-> 0]

\* Mutant: the pinned read still draws from the cycle.
PinnedRead_Draws(t) ==
    /\ pc[t] = "idle"
    /\ pinned' = Set(pinned, t, TRUE)
    /\ ret' = Set(ret, t, DEFAULT_DB_ALIAS)
    /\ slaves' = IterAdvance(slaves)
    /\ pc' = Set(pc, t, "done")
    /\ op' = Set(op, t, "read")
    /\ UNCHANGED <<config, arg, allow, slaves_statistics, next_refresh_available_time, clock, now,
                   next, next_refresh, current_time, idx, dbs, retpc, raised, history>>

\* PinningMasterSlaveRouter.db_for_read, line 137, this_thread_is_pinned() true
PinnedRead(t) ==
    /\ pc[t] = "idle"
    /\ pinned' = Set(pinned, t, TRUE)
    /\ ret' = Set(ret, t, DEFAULT_DB_ALIAS)
    /\ pc' = Set(pc, t, "done")
    /\ op' = Set(op, t, "read")
    /\ UNCHANGED <<config, arg, allow, shared, clock, now, next, next_refresh, current_time,
                   idx, dbs, retpc, raised, history>>

\* Mutant: writes are sent to the replica the cycle is at.
db_for_write_ToSlave == IterValue(slaves)

\* MasterSlaveRouter.db_for_write, line 114: the alias writes go to
db_for_write == DEFAULT_DB_ALIAS

\* db_for_write, lines 112-114; the router may be the pinning one and the thread
\* pinned or not
DbForWrite(t) ==
    /\ pc[t] = "idle"
    /\ \E p \in BOOLEAN : pinned' = Set(pinned, t, p)
    /\ op' = Set(op, t, "write")
    /\ ret' = Set(ret, t, db_for_write)
    /\ pc' = Set(pc, t, "done")
    /\ UNCHANGED <<config, arg, allow, shared, clock, now, next, next_refresh, current_time,
                   idx, dbs, retpc, raised, history>>

\* Mutant: syncdb is allowed everywhere.
allow_syncdb_Any(db) == TRUE

\* MasterSlaveRouter.allow_syncdb, line 122: db == DEFAULT_DB_ALIAS
allow_syncdb(db) == db = DEFAULT_DB_ALIAS

\* The aliases allow_syncdb is asked about: the master, the replicas, any other
Databases == {DEFAULT_DB_ALIAS, "other"} \cup Range(SLAVE_DATABASES)

\* allow_syncdb, lines 120-122
AllowSyncdb(t) ==
    /\ pc[t] = "idle"
    /\ \E db \in Databases : /\ arg' = Set(arg, t, db)
                              /\ allow' = Set(allow, t, allow_syncdb(db))
    /\ op' = Set(op, t, "syncdb")
    /\ pc' = Set(pc, t, "done")
    /\ UNCHANGED <<config, shared, clock, locals, history>>

\* db_for_read, lines 110 / 137 (not pinned): enters SlavesProcessor.get_slave
EnterGetSlave(t) ==
    /\ pc[t] = "idle"
    /\ healthy => SumReturned < MaxCalls
    /\ pinned' = Set(pinned, t, FALSE)
    /\ pc' = Set(pc, t, "L69")
    /\ op' = Set(op, t, "read")
    /\ UNCHANGED <<config, arg, allow, shared, clock, now, next, next_refresh, current_time, idx,
                   dbs, retpc, ret, raised, history>>

GetSlave_L69_AtDeadline(t) ==
    /\ pc[t] = "L69"
    /\ now' = Set(now, t, clock)
    /\ pc' = Set(pc, t, IF clock >= next_refresh_available_time THEN "L83" ELSE "L71")
    /\ UNCHANGED <<config, router, shared, clock, pinned, next, next_refresh, current_time, idx,
                   dbs, retpc, ret, raised, history>>

\* line 69: if datetime.datetime.now() > cls.next_refresh_available_time
GetSlave_L69(t) ==
    /\ pc[t] = "L69"
    /\ now' = Set(now, t, clock)
    /\ pc' = Set(pc, t, IF clock > next_refresh_available_time THEN "L83" ELSE "L71")
    /\ UNCHANGED <<config, router, shared, clock, pinned, next, next_refresh, current_time, idx,
                   dbs, retpc, ret, raised, history>>

\* line 83: cls.next_refresh_available_time = UNIMAGINEABLE_FUTURE
Refresh_L83(t) ==
    /\ pc[t] = "L83"
    /\ next_refresh_available_time' = UNIMAGINEABLE_FUTURE
    /\ pc' = Set(pc, t, "L84")
    /\ UNCHANGED <<config, router, slaves_statistics, slaves, clock, locals, history>>

\* lines 84-85: next_refresh = cls.next_refresh_available_time; current_time = now()
Refresh_L84(t) ==
    /\ pc[t] = "L84"
    /\ next_refresh' = Set(next_refresh, t, next_refresh_available_time)
    /\ current_time' = Set(current_time, t, clock)
    /\ idx' = Set(idx, t, 1)
    /\ pc' = Set(pc, t, "L86")
    /\ UNCHANGED <<config, router, shared, clock, pinned, now, next, dbs, retpc, ret, raised,
                   history>>

Due_Inclusive(t, db) ==
    /\ ~slaves_statistics[db].available
    /\ slaves_statistics[db].reconnect <= current_time[t]

\* line 87: does the replica at the loop position get re-admitted?
Due(t, db) ==
    /\ ~slaves_statistics[db].available
    /\ slaves_statistics[db].reconnect < current_time[t]

\* lines 86-87: for statistics in cls.slaves_statistics.values(): if ... 
Refresh_L86(t) ==
    /\ pc[t] = "L86"
    /\ pc' = Set(pc, t, IF idx[t] > Len(keyOrder) THEN "L92"
                        ELSE IF Due(t, keyOrder[idx[t]]) THEN "L88" ELSE "L91")
    /\ UNCHANGED <<config, router, shared, clock, locals, history>>

Refresh_L88_All(t) ==
    /\ pc[t] = "L88"
    /\ slaves_statistics' = [db \in DOMAIN slaves_statistics |->
                               [available |-> TRUE, reconnect |-> UNIMAGINEABLE_FUTURE]]
    /\ idx' = Set(idx, t, idx[t] + 1)
    /\ pc' = Set(pc, t, "L86")
    /\ UNCHANGED <<config, router, next_refresh_available_time, slaves, clock, pinned, now, next,
                   next_refresh, current_time, dbs, retpc, ret, raised, history>>

\* lines 88-89: statistics['reconnect'] = UNIMAGINEABLE_FUTURE; statistics['available'] = True
Refresh_L88(t) ==
    /\ pc[t] = "L88"
    /\ LET db == keyOrder[idx[t]] IN
       slaves_statistics' = [slaves_statistics EXCEPT
                               ![db] = [available |-> TRUE, reconnect |-> UNIMAGINEABLE_FUTURE]]
    /\ idx' = Set(idx, t, idx[t] + 1)
    /\ pc' = Set(pc, t, "L86")
    /\ UNCHANGED <<config, router, next_refresh_available_time, slaves, clock, pinned, now, next,
                   next_refresh, current_time, dbs, retpc, ret, raised, history>>

\* line 91: next_refresh = min(next_refresh, statistics['reconnect'])
\* A replica that was never disabled has no 'reconnect' key: KeyError.
Refresh_L91(t) ==
    /\ pc[t] = "L91"
    /\ LET st == slaves_statistics[keyOrder[idx[t]]] IN
       IF "reconnect" \in DOMAIN st
       THEN /\ next_refresh' = Set(next_refresh, t, Min(next_refresh[t], st.reconnect))
            /\ idx' = Set(idx, t, idx[t] + 1)
            /\ pc' = Set(pc, t, "L86")
            /\ UNCHANGED <<raised, healthy, returned>>
       ELSE /\ Raise(t, "KeyError")
            /\ UNCHANGED <<next_refresh, idx>>
    /\ UNCHANGED <<config, router, shared, clock, pinned, now, next, current_time, dbs, retpc, ret,
                   probe_ok, avail_at_draw, disabled_at, disable_done>>

\* line 92: cls.reset_slave_databases()
Refresh_L92(t) ==
    /\ pc[t] = "L92"
    /\ retpc' = Set(retpc, t, "L93")
    /\ pc' = Set(pc, t, "L58")
    /\ UNCHANGED <<config, router, shared, clock, pinned, now, next, next_refresh, current_time,
                   idx, dbs, ret, raised, history>>

\* lines 58-60: dbs = filter(...) when SLAVE_DATABASES is not empty.  The flags
\* are read in one step; the list is installed in the next (Reset_L61).
Reset_L58(t) ==
    /\ pc[t] = "L58"
    /\ dbs' = Set(dbs, t, IF settings.SLAVE_DATABASES # <<>> THEN AvailableKeys ELSE <<>>)
    /\ pc' = Set(pc, t, "L61")
    /\ UNCHANGED <<config, router, shared, clock, pinned, now, next, next_refresh, current_time,
                   idx, retpc, ret, raised, history>>

\* lines 61-63: cls.slaves = itertools.cycle(dbs) or itertools.repeat(DEFAULT_DB_ALIAS)
Reset_L61(t) ==
    /\ pc[t] = "L61"
    /\ slaves' = Rebuilt(dbs[t])
    /\ pc' = Set(pc, t, retpc[t])
    /\ UNCHANGED <<config, router, slaves_statistics, next_refresh_available_time, clock, locals,
                   history>>

\* line 93: cls.next_refresh_available_time = min(cls.next_refresh_available_time, next_refresh)
Refresh_L93(t) ==
    /\ pc[t] = "L93"
    /\ next_refresh_available_time' = Min(next_refresh_available_time, next_refresh[t])
    /\ pc' = Set(pc, t, "L71")
    /\ UNCHANGED <<config, router, slaves_statistics, slaves, clock, locals, history>>

\* line 71: next = cls.slaves.next()
GetSlave_L71(t) ==
    /\ pc[t] = "L71"
    /\ next' = Set(next, t, IterValue(slaves))
    /\ slaves' = IterAdvance(slaves)
    /\ avail_at_draw' = Set(avail_at_draw, t,
                            {db \in Replicas : slaves_statistics[db].available})
    /\ pc' = Set(pc, t, "L73")
    /\ UNCHANGED <<config, router, slaves_statistics, next_refresh_available_time, clock, pinned,
                   now, next_refresh, current_time, idx, dbs, retpc, ret, raised,
                   probe_ok, disabled_at, disable_done, healthy, returned>>

\* lines 73, 78: connections[next].cursor() succeeds; return next
GetSlave_ProbeOk(t) ==
    /\ pc[t] = "L73"
    /\ probe_ok' = Set(probe_ok, t, "ok")
    /\ ret' = Set(ret, t, next[t])
    /\ pc' = Set(pc, t, "done")
    /\ returned' = IF healthy THEN [returned EXCEPT ![next[t]] = @ + 1] ELSE returned
    /\ UNCHANGED <<config, router, shared, clock, pinned, now, next, next_refresh, current_time,
                   idx, dbs, retpc, raised, avail_at_draw, disabled_at, disable_done,
                   healthy>>

GetSlave_ProbeFail_Returned(t) ==
    /\ pc[t] = "L73"
    /\ probe_ok' = Set(probe_ok, t, "fail")
    /\ ret' = Set(ret, t, next[t])
    /\ pc' = Set(pc, t, "done")
    /\ healthy' = FALSE
    /\ returned' = [a \in DOMAIN returned |-> 0]
    /\ UNCHANGED <<config, router, shared, clock, pinned, now, next, next_refresh, current_time,
                   idx, dbs, retpc, raised, avail_at_draw, disabled_at, disable_done>>

\* lines 73-75: connections[next].cursor() raises; cls.disable_connection(next)
GetSlave_ProbeFail(t) ==
    /\ pc[t] = "L73"
    /\ probe_ok' = Set(probe_ok, t, "fail")
    /\ pc' = Set(pc, t, "L97")
    /\ healthy' = FALSE
    /\ returned' = [a \in DOMAIN returned |-> 0]
    /\ UNCHANGED <<config, router, shared, clock, locals, avail_at_draw, disabled_at,
                   disable_done>>

\* line 73: connections[next].cursor() does not answer; the call is given no
\* timeout, so the caller stays blocked in it.
GetSlave_ProbeHang(t) ==
    /\ pc[t] = "L73"
    /\ probe_ok' = Set(probe_ok, t, "hang")
    /\ pc' = Set(pc, t, "L73_blocked")
    /\ UNCHANGED <<config, router, shared, clock, locals, avail_at_draw, disabled_at,
                   disable_done, healthy, returned>>

\* line 97: cls.slaves_statistics[alias]['reconnect'] = datetime.datetime.now() + RECONNECT_TIME
\* An alias that is no key of slaves_statistics (the master): KeyError.
Disable_L97(t) ==
    /\ pc[t] = "L97"
    /\ IF next[t] \in DOMAIN slaves_statistics
       THEN /\ slaves_statistics' =
                  [slaves_statistics EXCEPT
                     ![next[t]] = [available |-> @.available,
                                   reconnect |-> clock + RECONNECT_TIME]]
            /\ disabled_at' = [a \in DOMAIN disabled_at \cup {next[t]} |->
                                 IF a = next[t] THEN clock ELSE disabled_at[a]]
            /\ disable_done' = disable_done \ {next[t]}
            /\ pc' = Set(pc, t, "L98")
            /\ UNCHANGED <<raised, healthy, returned>>
       ELSE /\ Raise(t, "KeyError")
            /\ UNCHANGED <<slaves_statistics, disabled_at, disable_done>>
    /\ UNCHANGED <<config, router, next_refresh_available_time, slaves, clock, pinned, now, next,
                   next_refresh, current_time, idx, dbs, retpc, ret, probe_ok,
                   avail_at_draw>>

\* lines 98-99: cls.slaves_statistics[alias]['available'] = False; cls.reset_slave_databases()
Disable_L98(t) ==
    /\ pc[t] = "L98"
    /\ slaves_statistics' = [slaves_statistics EXCEPT ![next[t]].available = FALSE]
    /\ retpc' = Set(retpc, t, "L100")
    /\ pc' = Set(pc, t, "L58")
    /\ UNCHANGED <<config, router, next_refresh_available_time, slaves, clock, pinned, now, next,
                   next_refresh, current_time, idx, dbs, ret, raised, history>>

\* line 100, then line 76: next_refresh_available_time = min(...); return DEFAULT_DB_ALIAS
Disable_L100(t) ==
    /\ pc[t] = "L100"
    /\ next_refresh_available_time' =
           Min(next_refresh_available_time, slaves_statistics[next[t]].reconnect)
    /\ ret' = Set(ret, t, DEFAULT_DB_ALIAS)
    /\ pc' = Set(pc, t, "done")
    /\ disable_done' = disable_done \cup {next[t]}
    /\ UNCHANGED <<config, router, slaves_statistics, slaves, clock, pinned, now, next,
                   next_refresh, current_time, idx, dbs, retpc, raised, probe_ok,
                   avail_at_draw, disabled_at, healthy, returned>>

\* The caller takes the result; the frame of the call is gone.
Return(t) ==
    /\ pc[t] = "done"
    /\ pc' = Set(pc, t, "idle")
    /\ pinned' = Set(pinned, t, FALSE)
    /\ now' = Set(now, t, 0)
    /\ next' = Set(next, t, "")
    /\ next_refresh' = Set(next_refresh, t, 0)
    /\ current_time' = Set(current_time, t, 0)
    /\ idx' = Set(idx, t, 0)
    /\ dbs' = Set(dbs, t, <<>>)
    /\ retpc' = Set(retpc, t, "")
    /\ ret' = Set(ret, t, "")
    /\ raised' = Set(raised, t, "")
    /\ probe_ok' = Set(probe_ok, t, "none")
    /\ avail_at_draw' = Set(avail_at_draw, t, {})
    /\ op' = Set(op, t, "")
    /\ arg' = Set(arg, t, "")
    /\ allow' = Set(allow, t, FALSE)
    /\ UNCHANGED <<config, shared, clock, disabled_at, disable_done, healthy, returned>>

\* Time passes: a sixth of the backoff, or just past what is left of it.
SmallStep == RECONNECT_TIME \div 6
Deltas == {SmallStep, RECONNECT_TIME - SmallStep + 1}
Horizon == MaxPeriods * RECONNECT_TIME + SmallStep

Tick ==
    /\ \E d \in Deltas : /\ clock + d <= Horizon
                         /\ clock' = clock + d
    /\ UNCHANGED <<config, router, shared, pc, locals, history>>

Step(t) ==
    \/ PinnedRead(t)
    \/ DbForWrite(t)
    \/ AllowSyncdb(t)
    \/ EnterGetSlave(t)
    \/ GetSlave_L69(t)
    \/ Refresh_L83(t)
    \/ Refresh_L84(t)
    \/ Refresh_L86(t)
    \/ Refresh_L88(t)
    \/ Refresh_L91(t)
    \/ Refresh_L92(t)
    \/ Reset_L58(t)
    \/ Reset_L61(t)
    \/ Refresh_L93(t)
    \/ GetSlave_L71(t)
    \/ GetSlave_ProbeOk(t)
    \/ GetSlave_ProbeFail(t)
    \/ GetSlave_ProbeHang(t)
    \/ Disable_L97(t)
    \/ Disable_L98(t)
    \/ Disable_L100(t)
    \/ Return(t)

\* One caller at a time: calls do not overlap.
Next == Step(1) \/ Tick

Spec == Init /\ [][Next]_vars

\* MaxCallers callers whose steps interleave, over both replicas with
\* RECONNECT_TIME = 1 (a backoff of 60 seconds); between two steps time either
\* stands still or passes a whole backoff.
InitConc ==
    /\ Init
    /\ settings = [SLAVE_DATABASES |-> SLAVE_DATABASES, RECONNECT_TIME |-> 1]

TickConc ==
    /\ clock + RECONNECT_TIME + 1 <= Horizon - RECONNECT_TIME
    /\ clock' = clock + RECONNECT_TIME + 1
    /\ UNCHANGED <<config, router, shared, pc, locals, history>>

NextConc == (\E t \in AllCallers : Step(t)) \/ TickConc

SpecConc == InitConc /\ [][NextConc]_vars

\* ------------------------------------------------------------------ claims
Idle == \A t \in AllCallers : pc[t] \in {"idle", "done"}

Unavailable == {db \in Replicas : ~slaves_statistics[db].available}

Available == {db \in Replicas : slaves_statistics[db].available}

\* C1: every db_for_read / get_slave call returns an alias (the master or a
\* configured replica) and raises nothing, whatever the registry, the call time
\* and the probe outcome.
C1_NeverRaises ==
    \A t \in AllCallers :
        (pc[t] = "done" /\ op[t] = "read") =>
            /\ raised[t] = ""
            /\ ret[t] \in Replicas \cup {DEFAULT_DB_ALIAS}

C3_Readmission ==
    \A t \in AllCallers : \A db \in DOMAIN disabled_at :
        (~pinned[t] /\ pc[t] \in {"L71", "done"}
                    /\ now[t] > disabled_at[db] + RECONNECT_TIME) =>
            /\ ~(raised[t] # "" /\ probe_ok[t] = "none")
            /\ pc[t] = "L71" => /\ slaves_statistics[db].available
                                /\ slaves.kind = "cycle"
                                /\ db \in Range(slaves.items)

\* C4: a get_slave call that draws while no replica is marked available (none
\* configured, or all disabled) returns the master and raises nothing.
C4_TotalOutageFallback ==
    \A t \in AllCallers :
        (pc[t] = "done" /\ ~pinned[t] /\ probe_ok[t] # "none" /\ avail_at_draw[t] = {}) =>
            /\ raised[t] = ""
            /\ ret[t] = DEFAULT_DB_ALIAS

\* min of statistics['reconnect'] over the unavailable replicas, or the sentinel
MinReconnect(S) ==
    IF S = {} THEN UNIMAGINEABLE_FUTURE
    ELSE CHOOSE m \in {slaves_statistics[db].reconnect : db \in S} :
             \A db \in S : m <= slaves_statistics[db].reconnect

\* C5: between calls, next_refresh_available_time is the minimum reconnect time
\* of the unavailable replicas, or UNIMAGINEABLE_FUTURE when there is none.
C5_DeadlineIsMin ==
    Idle => next_refresh_available_time = MinReconnect(Unavailable)

\* C6: whenever no disable_connection and no refresh_available is running, the
\* members of the cycle are exactly the replicas marked available, and the
\* iterator is the repeat of the master exactly when there is none.
C6_CycleIsAvailableSet ==
    (\A t \in AllCallers : pc[t] \in {"idle", "L69", "L71", "L73", "done"}) =>
        /\ (slaves.kind = "repeat") <=> (Available = {})
        /\ slaves.kind = "cycle" => Range(slaves.items) = Available

\* C7: while every probe has succeeded and no replica was ever disabled, after N
\* get_slave returns each configured replica was returned a number of times
\* that differs from N / replicaCount by less than one, and the master never.
C7_RoundRobinFairness ==
    (healthy /\ Replicas # {}) =>
        LET n == Cardinality(Replicas)
            N == SumReturned
        IN /\ returned[DEFAULT_DB_ALIAS] = 0
           /\ \A db \in Replicas : /\ returned[db] * n - N < n
                                   /\ N - returned[db] * n < n

C7_Witness ==
    /\ healthy
    /\ Cardinality(Replicas) >= 2
    /\ SumReturned = 3
    /\ \A t \in AllCallers : pc[t] = "idle"

\* C8: db_for_read on a pinned thread returns the master at once and leaves the
\* availability flags, the reconnect times, next_refresh_available_time and the
\* cycle with its cursor as they were.
C8_PinnedReadIsPure ==
    [][\A t \in AllCallers :
           (pc[t] = "idle" /\ pc'[t] # "idle" /\ pinned'[t]) =>
               /\ pc'[t] = "done"
               /\ ret'[t] = DEFAULT_DB_ALIAS
               /\ raised'[t] = ""
               /\ UNCHANGED shared]_vars

C8_Witness ==
    \E t \in AllCallers :
        /\ pc[t] = "done" /\ pinned[t] /\ ret[t] = DEFAULT_DB_ALIAS
        /\ Unavailable # {}
        /\ next_refresh_available_time # UNIMAGINEABLE_FUTURE
        /\ slaves.kind = "cycle"

\* C9: with callers whose steps interleave, every call ends without an
\* exception and with the master or a configured replica, and the cursor of the
\* shared iterator stays inside its sequence.
C9_ConcurrentCallsValid ==
    /\ slaves.pos \in 1..Len(slaves.items)
    /\ \A t \in AllCallers :
           (pc[t] = "done" /\ op[t] = "read") =>
               /\ raised[t] = ""
               /\ ret[t] \in Replicas \cup {DEFAULT_DB_ALIAS}

C11_WriteGoesToMaster ==
    [][\A t \in AllCallers :
           (pc[t] = "idle" /\ op'[t] = "write") =>
               /\ pc'[t] = "done"
               /\ ret'[t] = DEFAULT_DB_ALIAS
               /\ raised'[t] = ""
               /\ UNCHANGED shared]_vars

C11_Witness ==
    \E t \in AllCallers :
        /\ pc[t] = "done" /\ op[t] = "write" /\ ~pinned[t]
        /\ ret[t] = DEFAULT_DB_ALIAS
        /\ Available # {} /\ Unavailable # {}
        /\ slaves.kind = "cycle"

\* C12: allow_syncdb(db) is true exactly when db is the master, for the master,
\* every configured replica and any other alias, in every state.
C12_SyncdbOnlyOnMaster ==
    \A t \in AllCallers :
        (pc[t] = "done" /\ op[t] = "syncdb") =>
            /\ arg[t] \in Databases
            /\ allow[t] <=> (arg[t] = "default")

C12_Witness ==
    /\ \E t \in AllCallers :
           /\ pc[t] = "done" /\ op[t] = "syncdb"
           /\ arg[t] \in Replicas /\ ~allow[t]
           /\ ~slaves_statistics[arg[t]].available

\* A replica is excluded while its last disable_connection has returned and the
\* backoff recorded by that disablement has not yet elapsed.
Excluded(db) ==
    /\ db \in disable_done
    /\ db \in DOMAIN disabled_at
    /\ clock < disabled_at[db] + RECONNECT_TIME

\* C13: once a caller has disabled a replica, no concurrent caller hands that
\* replica out (not even one that drew it before the disablement and whose probe
\* finishes after it) and none marks it available again, until the recorded
\* backoff has elapsed.
C13_DisablementRespected ==
    [][\A db \in Replicas :
           Excluded(db) =>
               /\ ~(\E t \in AllCallers :
                        pc[t] = "L73" /\ pc'[t] = "done" /\ ret'[t] = db)
               /\ (~slaves_statistics[db].available =>
                       ~slaves_statistics'[db].available)]_vars

\* The callers that are inside none of the rebuilds: no disable_connection, no
\* refresh_available and no reset_slave_databases is in progress.
NoRebuildInProgress ==
    \A t \in AllCallers : pc[t] \in {"idle", "L69", "L71", "L73", "L73_blocked", "done"}

\* C14: when the callers that disabled replicas or refreshed have all finished,
\* the installed cycle is built from the final availability flags: it holds no
\* replica that is flagged unavailable, whatever the interleaving was.
C14_RebuildFromFinalFlags ==
    (NoRebuildInProgress /\ slaves.kind = "cycle") =>
        Range(slaves.items) \subseteq Available

\* The replicas the loop of caller t's refresh_available has been through.
Visited(t) == {keyOrder[j] : j \in 1..(idx[t] - 1)}

InRefresh(t) ==
    \/ pc[t] \in {"L86", "L88", "L91", "L92", "L93"}
    \/ pc[t] \in {"L58", "L61"} /\ retpc[t] = "L93"

C17_ReturnGatedByProbe ==
    \A t \in AllCallers :
        (pc[t] = "done" /\ op[t] = "read" /\ ret[t] # DEFAULT_DB_ALIAS /\ raised[t] = "") =>
            /\ ret[t] \in Replicas
            /\ ret[t] = next[t]
            /\ probe_ok[t] = "ok"

C17_Witness ==
    \E t \in AllCallers :
        /\ pc[t] = "done" /\ op[t] = "read"
        /\ ret[t] \in Replicas \cap disable_done
        /\ probe_ok[t] = "ok"
        /\ now[t] > disabled_at[ret[t]] + RECONNECT_TIME

\* C18: a get_slave call whose deadline test at line 69 reads a time that is not
\* later than next_refresh_available_time goes straight to the draw: the step
\* changes no availability flag, no reconnect time, not the cycle and not the
\* deadline.
C18_NoRefreshBeforeDeadline ==
    [][\A t \in AllCallers :
           (pc[t] = "L69" /\ pc'[t] # "L69" /\ clock <= next_refresh_available_time) =>
               /\ pc'[t] = "L71"
               /\ UNCHANGED shared]_vars

C18_Witness ==
    \E t \in AllCallers :
        /\ pc[t] = "L71"
        /\ now[t] = next_refresh_available_time
        /\ Unavailable # {}

\* C19: a get_slave call whose probe never answers is cut off and goes on as on
\* a probe failure: a caller waiting in the probe at line 73 always has a next
\* step of its own.
C19_ProbeIsCutOff ==
    \A t \in AllCallers :
        (pc[t] = "L73_blocked" /\ probe_ok[t] = "hang") => ENABLED Step(t)

\* C20: between calls, next_refresh_available_time is not later than the
\* reconnect time of any replica that is flagged unavailable, also after a
\* refresh that raised part-way.
C20_DeadlineNeverStaleLate ==
    Idle =>
        \A db \in Unavailable :
            next_refresh_available_time <= slaves_statistics[db].reconnect

====
